---------------------------- MODULE Spec2Model ----------------------------
(***************************************************************************)
(* State-machine model of ticketline-ws.py: the listing pager              *)
(* (scrape_events_for_month), the session expander                         *)
(* (scrape_additional_sessions), the main run and the persistence pass     *)
(* (save_events_to_db) with its matchers and the PostgreSQL transaction    *)
(* the pass runs in.                                                       *)
(*                                                                         *)
(* Python strings are modelled as sequences of one-character strings, so   *)
(* that lower(), strip(), split() and the substring test `a in b` are      *)
(* computed and not assumed.  Date strings are TLA+ strings taken from a   *)
(* pool; parse_date_to_offset_datetime maps them to instants (integers).   *)
(***************************************************************************)
EXTENDS Integers, Sequences, FiniteSets, TLC

(***************************************************************************)
(* Bounds of the model.                                                    *)
(***************************************************************************)
MaxTitleLen == 3
MaxNameLen == 2
MaxEvents == 2
MaxClock == 2
MaxFaults == 1
MaxPage == 2
MaxSessions == 2
MaxRunEvents == 1
EndPage == 1

(***************************************************************************)
(* Python str operations on sequences of characters.                       *)
(***************************************************************************)
Sp == " "
Dash == "-"
SepStr == <<Sp, Dash, Sp>>

\* str.lower() on one character of the model's alphabet.
LowerChar(c) ==
    CASE c = "A" -> "a"
      [] c = "B" -> "b"
      [] c = "J" -> "j"
      [] c = "O" -> "o"
      [] c = "V" -> "v"
      [] c = "W" -> "w"
      [] c = "C" -> "c"
      [] OTHER -> c

\* str.lower()
Lower(s) == [i \in 1..Len(s) |-> LowerChar(s[i])]

\* The Python test `a in b` on strings: a is a contiguous substring of b.
IsIn(a, b) ==
    \E i \in 0..(Len(b) - Len(a)) : SubSeq(b, i + 1, i + Len(a)) = a

\* str.strip(chars): drop leading and trailing characters that are in chars.
RECURSIVE LStrip(_, _)
LStrip(s, chars) ==
    IF s # <<>> /\ Head(s) \in chars THEN LStrip(Tail(s), chars) ELSE s

RECURSIVE RStrip(_, _)
RStrip(s, chars) ==
    IF s # <<>> /\ s[Len(s)] \in chars
    THEN RStrip(SubSeq(s, 1, Len(s) - 1), chars)
    ELSE s

StripChars(s, chars) == RStrip(LStrip(s, chars), chars)

\* str.strip() with no argument: whitespace.
Strip(s) == StripChars(s, {Sp})

\* Index (1-based) of the first occurrence of sep in s, 0 when there is none.
FindFirst(s, sep) ==
    IF IsIn(sep, s)
    THEN CHOOSE i \in 1..(Len(s) - Len(sep) + 1) :
            /\ SubSeq(s, i, i + Len(sep) - 1) = sep
            /\ \A j \in 1..(i - 1) : SubSeq(s, j, j + Len(sep) - 1) # sep
    ELSE 0

(***************************************************************************)
(* None, and the truth value Python gives a returned tuple-or-None.        *)
(***************************************************************************)
None == <<>>
Truthy(x) == x # None

(***************************************************************************)
(* find_matching_standup(event_title, standups)                            *)
(* standups is a sequence of <<standup_id, standup_name>>.                 *)
(***************************************************************************)
RECURSIVE find_matching_standup_last(_, _)
find_matching_standup_last(event_title, standups) ==
    IF standups = <<>> THEN None
    ELSE LET rest == find_matching_standup_last(event_title, Tail(standups))
         IN IF rest # None THEN rest
            ELSE IF IsIn(Lower(Head(standups)[2]), Lower(event_title))
                 THEN Head(standups)
                 ELSE None

RECURSIVE find_matching_standup(_, _)
find_matching_standup(event_title, standups) ==
    IF standups = <<>> THEN None
    ELSE IF IsIn(Lower(Head(standups)[2]), Lower(event_title))
         THEN Head(standups)
         ELSE find_matching_standup(event_title, Tail(standups))

(***************************************************************************)
(* find_matching_location(event_location, locations)                       *)
(* locations is a sequence of <<location_id, location_name>>.              *)
(***************************************************************************)
RECURSIVE find_matching_location_one_way(_, _)
\* The test with its second disjunct left out.
find_matching_location_one_way(event_location, locs) ==
    IF locs = <<>> THEN None
    ELSE IF IsIn(Lower(Head(locs)[2]), Lower(event_location))
         THEN Head(locs)
         ELSE find_matching_location_one_way(event_location, Tail(locs))

RECURSIVE find_matching_location(_, _)
find_matching_location(event_location, locations) ==
    IF locations = <<>> THEN None
    ELSE IF \/ IsIn(Lower(Head(locations)[2]), Lower(event_location))
            \/ IsIn(Lower(event_location), Lower(Head(locations)[2]))
         THEN Head(locations)
         ELSE find_matching_location(event_location, Tail(locations))


(***************************************************************************)
(* Date strings and parse_date_to_offset_datetime.  Instants are integers; *)
(* two different strings may denote the same instant.                      *)
(***************************************************************************)
IsoInstant ==
    [s \in {"2025-11-01T00:00:00Z", "2025-11-02T21:30:00+00:00"} |->
        IF s = "2025-11-01T00:00:00Z" THEN 1 ELSE 2]

DateOnlyInstant == [s \in {"2025-11-01"} |-> 1]

\* The strings of the pool in which Python finds the character 'T'.
HasT(date_str) == date_str \in (DOMAIN IsoInstant) \cup {"TBA"}

\* The fallback mutated: a fixed instant instead of datetime.now().
parse_date_fixed_fallback(date_str, now) ==
    IF HasT(date_str)
    THEN IF date_str \in DOMAIN IsoInstant THEN IsoInstant[date_str] ELSE 0
    ELSE IF date_str \in DOMAIN DateOnlyInstant
         THEN DateOnlyInstant[date_str]
         ELSE 0

\* now is the value datetime.now(timezone.utc) has when the call is made.
parse_date_to_offset_datetime(date_str, now) ==
    IF HasT(date_str)
    THEN IF date_str \in DOMAIN IsoInstant THEN IsoInstant[date_str] ELSE now
    ELSE IF date_str \in DOMAIN DateOnlyInstant
         THEN DateOnlyInstant[date_str]
         ELSE now

(***************************************************************************)
(* The store: committed rows, and the transaction of the connection that   *)
(* save_events_to_db holds (psycopg2 opens it at the first statement).     *)
(*   ev   committed event rows       tx   rows inserted and not committed  *)
(*   ab   the transaction is in PostgreSQL's failed state                  *)
(*   locs committed location rows <<id, name, city>>, in insertion order   *)
(*   lx   location rows inserted by the open transaction, not committed   *)
(***************************************************************************)
EventKey(row) == <<row.standup_id, row.date>>

Visible(db) == db.ev \cup db.tx

\* INSERT INTO event ... with the ON CONFLICT clause left out: the unique
\* index on (standup_id, date) rejects the row with an error.
insert_sql_plain(db, row) ==
    IF \E r \in Visible(db) : EventKey(r) = EventKey(row)
    THEN [db |-> [db EXCEPT !.ab = TRUE], rowcount |-> 0, raised |-> TRUE]
    ELSE [db |-> [db EXCEPT !.tx = @ \cup {row}], rowcount |-> 1, raised |-> FALSE]

\* INSERT INTO event ... with no unique index consulted at all.
insert_sql_no_index(db, row) ==
    [db |-> [db EXCEPT !.tx = @ \cup {row}], rowcount |-> 1, raised |-> FALSE]

\* INSERT INTO event ... ON CONFLICT (standup_id, date) DO NOTHING
insert_sql(db, row) ==
    IF \E r \in Visible(db) : EventKey(r) = EventKey(row)
    THEN [db |-> db, rowcount |-> 0, raised |-> FALSE]
    ELSE [db |-> [db EXCEPT !.tx = @ \cup {row}], rowcount |-> 1, raised |-> FALSE]

\* conn.commit(); on a failed transaction the server answers ROLLBACK.
Commit(db) ==
    IF db.ab
    THEN [db EXCEPT !.tx = {}, !.lx = <<>>, !.ab = FALSE]
    ELSE [db EXCEPT !.ev = @ \cup db.tx, !.tx = {},
                    !.locs = @ \o db.lx, !.lx = <<>>]

\* conn.rollback()
Rollback(db) == [db EXCEPT !.tx = {}, !.lx = <<>>, !.ab = FALSE]

(***************************************************************************)
(* create_location_in_db(location_string, cursor, conn)                    *)
(***************************************************************************)
location_name(location_string) ==
    IF IsIn(SepStr, location_string)
    THEN Strip(SubSeq(location_string, 1, FindFirst(location_string, SepStr) - 1))
    ELSE Strip(location_string)

location_city(location_string) ==
    IF IsIn(SepStr, location_string)
    THEN Strip(SubSeq(location_string,
                      FindFirst(location_string, SepStr) + Len(SepStr),
                      Len(location_string)))
    ELSE None

\* ok = FALSE: the statement or the commit raises psycopg2.Error.  The
\* statement always raises when the transaction is in the failed state.
\* INSERT INTO location (name, city, street, "number") ... RETURNING id:
\* the row is part of the open transaction.
insert_location(location_string, db) ==
    [db EXCEPT !.lx = Append(@, <<Len(db.locs) + Len(db.lx) + 1,
                                  location_name(location_string),
                                  location_city(location_string)>>)]

\* cursor.fetchone()[0] and name, of the row just inserted.
inserted_location(db) == <<db.lx[Len(db.lx)][1], db.lx[Len(db.lx)][2]>>

\* create_location_in_db with conn.commit() (line 305) left out.
create_location_in_db_uncommitted(location_string, db, ok) ==
    IF ok /\ ~db.ab
    THEN [db |-> insert_location(location_string, db),
          result |-> inserted_location(insert_location(location_string, db))]
    ELSE [db |-> Rollback(db), result |-> None]

create_location_in_db(location_string, db, ok) ==
    IF ok /\ ~db.ab
    THEN [db |-> Commit(insert_location(location_string, db)),
          result |-> inserted_location(insert_location(location_string, db))]
    ELSE [db |-> Rollback(db), result |-> None]


(***************************************************************************)
(* State.                                                                  *)
(***************************************************************************)
VARIABLES
    pc,                     \* position of the run
    standups,               \* list handed to save_events_to_db
    all_events,             \* list handed to save_events_to_db
    locations,              \* save_events_to_db: in-memory location list
    idx,                    \* save_events_to_db: position of the for loop
    saved_count,
    skipped_standup_count,
    skipped_location_count,
    unmatched_locations,
    summary,                \* "none", or "printed" once the tally is printed
    db,                     \* the store and the pass's transaction
    clock,                  \* last value datetime.now() returned
    faults,                 \* store faults the environment has injected
    log,                    \* history: one entry per event the pass handled
    pass,                   \* history: number of the current save pass
    first,                  \* history: inputs and outcome of the first pass
    today,                  \* datetime.today().date(): month and year
    month_i,                \* i of `for i in range(4)`
    page_number,            \* scrape_events_for_month: page_number
    events,                 \* scrape_events_for_month: events
    main_events,
    pg,                     \* history: the latest turn of the pager's loop
    collected,              \* history: events of the current call, by page
    exp_i,                  \* position of the loop of lines 653-658 in main_events
    expLog,                 \* history: one entry per event the loop has handled
    exit_code,              \* exit status of the process, -1 while it runs
    conns                   \* number of database connections that are open

saveVars == <<locations, idx, saved_count, skipped_standup_count,
              skipped_location_count, unmatched_locations, summary>>
storeVars == <<db, clock, faults, conns>>
histVars == <<log, pass, first>>
crawlVars == <<today, month_i, page_number, events, main_events, pg, collected>>
mainVars == <<exp_i, expLog, exit_code>>
vars == <<pc, standups, all_events, saveVars, storeVars, histVars, crawlVars, mainVars>>

Min2(a, b) == IF a < b THEN a ELSE b

\* All orders in which a SELECT without ORDER BY may return the rows of s.
Perms(s) ==
    LET n == Len(s)
    IN {[i \in 1..n |-> s[f[i]]] :
            f \in {g \in [1..n -> 1..n] : \A i, j \in 1..n : i # j => g[i] # g[j]}}

\* conn.close() left out.
close_skipped(c) == c

\* get_db_connection(): psycopg2.connect gives a connection, or None.
get_db_connection(c, ok) == IF ok THEN c + 1 ELSE c

\* conn.close() in the finally clauses.
close(c) == c - 1

\* The connection of get_standups_from_db / get_locations_from_db: opened,
\* read from, closed by the finally clause; nothing is opened when
\* psycopg2.connect fails.
lookup_connection(c, ok) == IF ok THEN close(get_db_connection(c, TRUE)) ELSE c

\* SELECT id, name FROM location
LocationRows(d) == [i \in 1..Len(d.locs) |-> <<d.locs[i][1], d.locs[i][2]>>]

(***************************************************************************)
(* save_events_to_db(events, standups): entry, up to the for loop.         *)
(***************************************************************************)
SaveStart ==
    /\ pc = "save"
    /\ log' = <<>>
    /\ UNCHANGED <<standups, all_events, db, clock, pass, first, crawlVars, mainVars>>
    /\ IF standups = <<>>
       THEN /\ pc' = "saved"
            /\ summary' = "none"
            /\ UNCHANGED <<locations, idx, saved_count, skipped_standup_count,
                           skipped_location_count, unmatched_locations, faults,
                           conns>>
       ELSE \E readOk \in BOOLEAN, connOk \in BOOLEAN :
              /\ faults + (IF readOk THEN 0 ELSE 1) + (IF connOk THEN 0 ELSE 1)
                    <= MaxFaults
              /\ faults' = faults + (IF readOk THEN 0 ELSE 1)
                                  + (IF connOk THEN 0 ELSE 1)
              /\ \E rows \in (IF readOk THEN Perms(LocationRows(db)) ELSE {<<>>}) :
                    locations' = rows
              /\ idx' = 1
              /\ saved_count' = 0
              /\ skipped_standup_count' = 0
              /\ skipped_location_count' = 0
              /\ unmatched_locations' = {}
              /\ summary' = "none"
              /\ conns' = get_db_connection(lookup_connection(conns, readOk), connOk)
              /\ pc' = IF connOk THEN "save_loop" ELSE "saved"

(***************************************************************************)
(* One iteration of `for event in events`.                                 *)
(***************************************************************************)
\* locations.append((location_id, location_name)) left out.
append_location_forgotten(locs, result) == locs

\* locations.append((location_id, location_name))
append_location(locs, result) == Append(locs, result)

EventRow(event, parsed_date, location_id, standup_id, d) ==
    [id |-> Cardinality(Visible(d)) + 1,
     name |-> event.title,
     date |-> parsed_date,
     url |-> event.detailsPageUrl,
     location |-> location_id,
     standup_id |-> standup_id,
     priority |-> 1]

\* The event matched no standup: counted, nothing else happens.
SaveSkipStandup(event) ==
    /\ skipped_standup_count' = skipped_standup_count + 1
    /\ log' = Append(log, [attempted |-> FALSE, event |-> event,
                           standup |-> None, lockind |-> "none", loc |-> None])
    /\ UNCHANGED <<locations, saved_count, skipped_location_count,
                   unmatched_locations, db, clock, faults>>

\* create_location_in_db returned None: counted, `continue`.
SaveSkipLocation(event, matching_standup, db1, nf) ==
    /\ skipped_location_count' = skipped_location_count + 1
    /\ unmatched_locations' = unmatched_locations \cup {event.location}
    /\ db' = db1
    /\ faults' = faults + nf
    /\ log' = Append(log, [attempted |-> FALSE, event |-> event,
                           standup |-> matching_standup,
                           lockind |-> "fail", loc |-> None])
    /\ UNCHANGED <<locations, saved_count, skipped_standup_count, clock>>

\* The outcome res of cursor.execute(insert_sql, ...) and what follows it.
SaveInserted(event, matching_standup, loc, lockind, db1, row, res, fallback, nf, now, insertOk) ==
    /\ locations' = IF lockind = "create"
                    THEN append_location(locations, loc)
                    ELSE locations
    /\ db' = res.db
    /\ faults' = faults + nf
    /\ clock' = now
    /\ saved_count' = IF ~res.raised /\ res.rowcount > 0
                      THEN saved_count + 1 ELSE saved_count
    /\ log' = Append(log,
          [attempted |-> TRUE, event |-> event,
           standup |-> matching_standup,
           lockind |-> lockind,
           loc |-> loc,
           date |-> row.date,
           fallback |-> fallback,
           executed |-> insertOk,
           conflict |-> \E r \in Visible(db1) : EventKey(r) = EventKey(row),
           rowcount |-> res.rowcount,
           raised |-> res.raised,
           grew |-> Visible(res.db) # Visible(db1)])
    /\ UNCHANGED <<skipped_standup_count, skipped_location_count,
                   unmatched_locations>>

\* parse_date_to_offset_datetime, then cursor.execute(insert_sql, ...).
\* insertOk = FALSE: the statement raises psycopg2.Error for a reason of the
\* store's; aborts says whether that leaves the transaction failed.  In a
\* failed transaction every statement raises.
SaveInsertAt(event, matching_standup, loc, lockind, db1, nf, now, fallback) ==
    \E insertOk \in (IF db1.ab THEN {FALSE}
                     ELSE IF faults + nf < MaxFaults THEN BOOLEAN ELSE {TRUE}) :
      \E aborts \in (IF ~insertOk /\ ~db1.ab THEN BOOLEAN ELSE {FALSE}) :
        SaveInserted(event, matching_standup, loc, lockind, db1,
            EventRow(event, parse_date_to_offset_datetime(event.date, now),
                     loc[1], matching_standup[1], db1),
            IF ~insertOk
            THEN [db |-> [db1 EXCEPT !.ab = @ \/ aborts],
                  rowcount |-> 0, raised |-> TRUE]
            ELSE insert_sql(db1,
                    EventRow(event, parse_date_to_offset_datetime(event.date, now),
                             loc[1], matching_standup[1], db1)),
            fallback,
            nf + (IF ~insertOk /\ ~db1.ab THEN 1 ELSE 0),
            now, insertOk)

\* The clock is read only when the date string does not parse.
IsFallback(date_str) ==
    /\ parse_date_to_offset_datetime(date_str, 0) = 0
    /\ parse_date_to_offset_datetime(date_str, 1) = 1

SaveInsert(event, matching_standup, loc, lockind, db1, nf) ==
    \E now \in (IF IsFallback(event.date)
                THEN clock..Min2(clock + 1, MaxClock) ELSE {clock}) :
        SaveInsertAt(event, matching_standup, loc, lockind, db1, nf, now,
                     IsFallback(event.date))

\* cr is what create_location_in_db did and returned.
SaveCreated(event, matching_standup, cr, nf) ==
    IF Truthy(cr.result)
    THEN SaveInsert(event, matching_standup, cr.result, "create", cr.db, nf)
    ELSE SaveSkipLocation(event, matching_standup, cr.db, nf)

SaveLocation(event, matching_standup, matching_location) ==
    IF Truthy(matching_location)
    THEN SaveInsert(event, matching_standup, matching_location, "match", db, 0)
    ELSE \E createOk \in (IF db.ab THEN {FALSE}
                          ELSE IF faults < MaxFaults THEN BOOLEAN ELSE {TRUE}) :
            SaveCreated(event, matching_standup,
                        create_location_in_db(event.location, db, createOk),
                        IF ~createOk /\ ~db.ab THEN 1 ELSE 0)

SaveMatched(event, matching_standup) ==
    IF Truthy(matching_standup)
    THEN SaveLocation(event, matching_standup,
                      find_matching_location(event.location, locations))
    ELSE SaveSkipStandup(event)

SaveEvent ==
    /\ pc = "save_loop"
    /\ idx <= Len(all_events)
    /\ idx' = idx + 1
    /\ UNCHANGED <<pc, standups, all_events, summary, pass, first, crawlVars, mainVars,
                   conns>>
    /\ SaveMatched(all_events[idx],
                   find_matching_standup(all_events[idx].title, standups))

(***************************************************************************)
(* After the loop: conn.commit() and the tally, or the outer handler's     *)
(* conn.rollback(); then the connection is closed.                         *)
(***************************************************************************)
SaveCommit ==
    /\ pc = "save_loop"
    /\ idx > Len(all_events)
    /\ \E commitOk \in BOOLEAN :
         /\ faults + (IF commitOk THEN 0 ELSE 1) <= MaxFaults
         /\ faults' = faults + (IF commitOk THEN 0 ELSE 1)
         /\ db' = IF commitOk THEN Commit(db) ELSE Rollback(db)
         /\ summary' = IF commitOk THEN "printed" ELSE "none"
    /\ conns' = close(conns)
    /\ pc' = "saved"
    /\ UNCHANGED <<standups, all_events, locations, idx, saved_count,
                   skipped_standup_count, skipped_location_count,
                   unmatched_locations, clock, histVars, crawlVars, mainVars>>


(***************************************************************************)
(* Inputs of the persistence pass.                                         *)
(***************************************************************************)
Event(title, date, location, has_multi_sessions, detailsPageUrl) ==
    [title |-> title, date |-> date, location |-> location,
     has_multi_sessions |-> has_multi_sessions,
     detailsPageUrl |-> detailsPageUrl]

T_Jo == <<"J", "o">>
T_xo == <<"x", "o">>
N_Jo == <<"J", "o">>
N_o == <<"o">>
L_VC == <<"V", Sp, Dash, Sp, "C">>
L_W == <<"W">>
BASE_URL == "https://ticketline.sapo.pt"

ListsUpTo(S, n) == UNION {[1..k -> S] : k \in 0..n}

StandupTables ==
    {<<>>, <<<<1, N_Jo>>>>, <<<<1, N_Jo>>, <<2, N_o>>>>}

LocationTables == {<<>>}

SaveEventPool ==
    {Event(T_Jo, "2025-11-01", L_VC, FALSE, "u1"),
     Event(T_Jo, "2025-11-01T00:00:00Z", L_W, FALSE, "u2"),
     Event(T_xo, "N/A", L_VC, FALSE, "u3")}

\* The pager's variables where no crawl takes place.
NoTurn == [kind |-> "none", i |-> 0, page |-> 0]

CrawlIdle ==
    /\ today = [month |-> 11, year |-> 2025]
    /\ month_i = 0
    /\ page_number = 1
    /\ events = <<>>
    /\ main_events = <<>>
    /\ pg = NoTurn
    /\ collected = <<>>
    /\ exp_i = 1
    /\ expLog = <<>>
    /\ exit_code = -1

EmptyDb(locs) == [ev |-> {}, tx |-> {}, ab |-> FALSE, locs |-> locs, lx |-> <<>>]

NoFirst == [done |-> FALSE]

SaveLocalsInit ==
    /\ locations = <<>>
    /\ idx = 1
    /\ saved_count = 0
    /\ skipped_standup_count = 0
    /\ skipped_location_count = 0
    /\ unmatched_locations = {}
    /\ summary = "none"
    /\ log = <<>>

(***************************************************************************)
(* The listing pager: scrape_events_for_month(page, month, year).          *)
(*                                                                         *)
(* A listing row <li> is what the locators of lines 471-476 read from it:  *)
(*   class    the class attribute, a sequence of class names               *)
(*   complete FALSE when an element a locator asks for is not in the row   *)
(*            (Playwright then raises after its wait)                      *)
(*   title, venues   text of .title, .venues                               *)
(*   date     the data-date attribute of .date, "" when it has none        *)
(*   href     the href attribute of the link                               *)
(***************************************************************************)
NA == <<"N", "/", "A">>

\* `x or default` on a string that may be None or empty.
OrElse(x, default) == IF x = <<>> THEN default ELSE x

\* str.strip() on the date strings of the pool.
DateStrip(date_str) ==
    IF date_str = " 2025-11-01" THEN "2025-11-01" ELSE date_str

\* full_url = BASE_URL + href if href.startswith('/') else href
full_url(href) ==
    IF href # <<>> /\ href[1] = "/" THEN <<BASE_URL>> \o href ELSE href

\* 'has_multiple_sessions' in classes
has_multi(class) == \E k \in 1..Len(class) : class[k] = "has_multiple_sessions"

\* event_elements.first.get_attribute("class") == "empty"
is_empty_marker(class) == class = <<"empty">>

row_event(row) ==
    Event(Strip(OrElse(row.title, NA)),
          DateStrip(IF row.date = "" THEN "N/A" ELSE row.date),
          Strip(OrElse(row.venues, NA)),
          has_multi(row.class),
          full_url(row.href))

ListingRow(class, complete, title, date, venues, href) ==
    [class |-> class, complete |-> complete, title |-> title, date |-> date,
     venues |-> venues, href |-> href]

T_x == <<"x">>

ListingRows ==
    {ListingRow(<<"has_multiple_sessions">>, TRUE, T_Jo, "2025-11-01", L_VC,
                <<"/", "e", "1">>),
     ListingRow(<<>>, TRUE, <<" ">> \o T_xo, "", L_W, <<"e", "2">>),
     ListingRow(<<"x", "has_multiple_sessions">>, TRUE, T_x, " 2025-11-01",
                L_W, <<"/", "e", "3">>),
     ListingRow(<<"empty">>, FALSE, <<>>, "", <<>>, <<>>),
     ListingRow(<<"empty", "last">>, TRUE, <<>>, "", <<>>, <<>>)}

\* What one page.goto of the listing brings: it raises, the page shows a
\* rate-limit signal, #eventos never appears, or the rows under #eventos.
Fetches(room) ==
    {[kind |-> "error"], [kind |-> "ratelimit"], [kind |-> "timeout"]}
    \cup {[kind |-> "doc", rows |-> rows] : rows \in ListsUpTo(ListingRows, room)}

\* The loop body with the wait timeout taken for an empty page: page_number
\* goes on.
pager_iteration_no_break(fetch, evs, pn) ==
    IF fetch.kind \in {"error", "ratelimit"}
    THEN [status |-> "continue", events |-> evs, page_number |-> pn]
    ELSE IF fetch.kind = "timeout"
    THEN [status |-> "continue", events |-> evs, page_number |-> pn + 1]
    ELSE IF Len(fetch.rows) = 1 /\ is_empty_marker(fetch.rows[1].class)
    THEN [status |-> "break", events |-> evs, page_number |-> pn]
    ELSE IF \E k \in 1..Len(fetch.rows) : ~fetch.rows[k].complete
    THEN [status |-> "raise", events |-> evs, page_number |-> pn]
    ELSE [status |-> "continue",
          events |-> evs \o [k \in 1..Len(fetch.rows) |-> row_event(fetch.rows[k])],
          page_number |-> pn + 1]

\* The loop body with `continue` after a failed load also counting the page.
pager_iteration_skip_failed(fetch, evs, pn) ==
    IF fetch.kind \in {"error", "ratelimit"}
    THEN [status |-> "continue", events |-> evs, page_number |-> pn + 1]
    ELSE IF fetch.kind = "timeout"
    THEN [status |-> "break", events |-> evs, page_number |-> pn]
    ELSE IF Len(fetch.rows) = 1 /\ is_empty_marker(fetch.rows[1].class)
    THEN [status |-> "break", events |-> evs, page_number |-> pn]
    ELSE IF \E k \in 1..Len(fetch.rows) : ~fetch.rows[k].complete
    THEN [status |-> "raise", events |-> evs, page_number |-> pn]
    ELSE [status |-> "continue",
          events |-> evs \o [k \in 1..Len(fetch.rows) |-> row_event(fetch.rows[k])],
          page_number |-> pn + 1]

\* One turn of `while True` (lines 436-489) on what the fetch brought.
pager_iteration(fetch, evs, pn) ==
    IF fetch.kind \in {"error", "ratelimit"}
    THEN [status |-> "continue", events |-> evs, page_number |-> pn]
    ELSE IF fetch.kind = "timeout"
    THEN [status |-> "break", events |-> evs, page_number |-> pn]
    ELSE IF Len(fetch.rows) = 1 /\ is_empty_marker(fetch.rows[1].class)
    THEN [status |-> "break", events |-> evs, page_number |-> pn]
    ELSE IF \E k \in 1..Len(fetch.rows) : ~fetch.rows[k].complete
    THEN [status |-> "raise", events |-> evs, page_number |-> pn]
    ELSE [status |-> "continue",
          events |-> evs \o [k \in 1..Len(fetch.rows) |-> row_event(fetch.rows[k])],
          page_number |-> pn + 1]

\* The month loop of the main run: for i in range(4).
Months == 4

\* line 645 without the wrap to January.
month_of_unwrapped(i) == today.month + i

month_of(i) == ((today.month + i - 1) % 12) + 1
year_of(i) == today.year + ((today.month + i - 1) \div 12)

RECURSIVE Flatten(_)
Flatten(ss) == IF ss = <<>> THEN <<>> ELSE Head(ss) \o Flatten(Tail(ss))

\* The state after one turn of the pager's loop, r being what the turn did.
PagerTurn(fetch, r) ==
    /\ r.page_number <= MaxPage
    /\ pg' = [kind |-> fetch.kind,
              rows |-> IF fetch.kind = "doc" THEN Len(fetch.rows) ELSE 0,
              class |-> IF fetch.kind = "doc" /\ fetch.rows # <<>>
                        THEN fetch.rows[1].class ELSE <<>>,
              status |-> r.status,
              i |-> month_i, month |-> month_of(month_i), year |-> year_of(month_i),
              page |-> page_number,
              events0 |-> events,
              main0 |-> main_events,
              prevkind |-> IF pg.kind # "none" /\ pg.i = month_i
                           THEN pg.kind ELSE "none",
              prevpage |-> IF pg.kind # "none" /\ pg.i = month_i
                           THEN pg.page ELSE 0]
    /\ collected' = IF r.events # events
                    THEN Append(IF page_number = 1 THEN <<>> ELSE collected,
                                SubSeq(r.events, Len(events) + 1, Len(r.events)))
                    ELSE IF r.status = "continue" /\ r.page_number # page_number
                    THEN Append(IF page_number = 1 THEN <<>> ELSE collected, <<>>)
                    ELSE IF page_number = 1 THEN <<>> ELSE collected
    /\ IF r.status = "continue"
       THEN /\ events' = r.events
            /\ page_number' = r.page_number
            /\ UNCHANGED <<pc, month_i, main_events>>
       ELSE IF r.status = "break"
       THEN /\ main_events' = main_events \o r.events
            /\ events' = <<>>
            /\ page_number' = 1
            /\ month_i' = month_i + 1
            /\ pc' = IF month_i + 1 = Months THEN "standups" ELSE "crawl"
       ELSE /\ pc' = "failed"
            /\ UNCHANGED <<events, page_number, month_i, main_events>>

\* One turn of the loop in a crawl that lists at most cap events.
Pager(cap) ==
    /\ pc = "crawl"
    /\ \E fetch \in Fetches(cap - Len(main_events) - Len(events)) :
          PagerTurn(fetch, pager_iteration(fetch, events, page_number))
    /\ UNCHANGED <<today, standups, all_events, saveVars, storeVars, histVars, mainVars>>

PagerStep == Pager(MaxRunEvents)

PagerLoop == Pager(MaxEvents)

(***************************************************************************)
(* The detail-page expander: scrape_additional_sessions(page, event).      *)
(*                                                                         *)
(* A detail page is the rows of `#sessoes ul.sessions_list li` (sessions), *)
(* whether `#eventList.available_events` is there (available) and the <li> *)
(* under it (items), each one under a ul.events_list or not (listed).      *)
(***************************************************************************)
Nothing == [some |-> FALSE, v |-> <<>>]
Just(v) == [some |-> TRUE, v |-> v]

SessionRow(has_date, date, details, venue, district, href, complete) ==
    [has_date |-> has_date, date |-> date, details |-> details, venue |-> venue,
     district |-> district, href |-> href, complete |-> complete]

SessionRows ==
    {SessionRow(TRUE, "2025-11-02T21:30:00+00:00", Just(<<"a">>), <<"V">>, <<"C", " ">>,
                <<"/", "s", "1">>, TRUE),
     SessionRow(FALSE, "", Nothing, <<>>, <<>>, <<>>, FALSE),
     SessionRow(TRUE, "2025-11-01", Nothing, <<"V">>, <<"C">>, <<"s", "3">>, TRUE),
     SessionRow(TRUE, "", Just(<<>>), <<>>, <<>>, <<>>, TRUE)}

ItemRow(listed, content, data_date, title, venues, venue, href, complete) ==
    [listed |-> listed, content |-> content, data_date |-> data_date,
     title |-> title, venues |-> venues, venue |-> venue, href |-> href,
     complete |-> complete]

ItemRows ==
    {ItemRow(TRUE, "2025-11-02T21:30:00+00:00", "", <<"b">>, <<"W", " ">>, <<>>,
             <<"/", "i", "1">>, TRUE),
     ItemRow(FALSE, "", "2025-11-01", <<"b", "b">>, <<>>, <<"V">>, <<"i", "2">>, TRUE),
     ItemRow(TRUE, "", "", <<"b">>, <<"W">>, <<>>, <<>>, TRUE),
     ItemRow(FALSE, "", "", <<>>, <<>>, <<>>, <<>>, FALSE)}

SampleItem == CHOOSE it \in ItemRows : it.listed /\ it.content # "" /\ it.complete

\* What page.goto of a detail page brings: it raises, the page shows a
\* rate-limit signal, or a document.
Loads ==
    {[kind |-> "error"], [kind |-> "ratelimit"]}
    \cup {[kind |-> "doc", sessions |-> ss, available |-> av,
           items |-> IF av THEN <<SampleItem>> ELSE <<>>] :
            ss \in ListsUpTo(SessionRows, MaxSessions) \ {<<>>}, av \in BOOLEAN}
    \cup {[kind |-> "doc", sessions |-> <<>>, available |-> TRUE, items |-> its] :
            its \in ListsUpTo(ItemRows, MaxSessions)}
    \cup {[kind |-> "doc", sessions |-> <<>>, available |-> FALSE, items |-> <<>>]}

\* lines 515-535 with the title taken from .details alone (line 519 without
\* event.title).
session_event_label_only(event, session, k) ==
    IF ~session.has_date
    THEN [raised |-> FALSE, events |-> <<>>, src |-> <<>>]
    ELSE IF ~session.details.some \/ ~session.complete
    THEN [raised |-> TRUE, events |-> <<>>, src |-> <<>>]
    ELSE [raised |-> FALSE,
          events |-> <<Event(Strip(session.details.v),
                            DateStrip(session.date),
                            StripChars(Strip(session.venue) \o SepStr
                                         \o Strip(session.district), {Sp, Dash}),
                            FALSE,
                            full_url(session.href))>>,
          src |-> << <<"A", k>> >>]

\* lines 515-535 for one row of Variant A; src tells the layout and the row.
session_event(event, session, k) ==
    IF ~session.has_date
    THEN [raised |-> FALSE, events |-> <<>>, src |-> <<>>]
    ELSE IF ~session.details.some \/ ~session.complete
    THEN [raised |-> TRUE, events |-> <<>>, src |-> <<>>]
    ELSE [raised |-> FALSE,
          events |-> <<Event(Strip(event.title \o SepStr \o session.details.v),
                            DateStrip(session.date),
                            StripChars(Strip(session.venue) \o SepStr
                                         \o Strip(session.district), {Sp, Dash}),
                            FALSE,
                            full_url(session.href))>>,
          src |-> << <<"A", k>> >>]

\* lines 549-579 for one item of Variant B.
item_event(event, item, k) ==
    IF ~item.complete
    THEN [raised |-> TRUE, events |-> <<>>, src |-> <<>>]
    ELSE IF (IF item.content # "" THEN item.content ELSE item.data_date) = ""
    THEN [raised |-> FALSE, events |-> <<>>, src |-> <<>>]
    ELSE [raised |-> FALSE,
          events |-> <<Event(Strip(event.title \o SepStr \o item.title),
                            DateStrip(IF item.content # "" THEN item.content
                                      ELSE item.data_date),
                            Strip(OrElse(item.venues, item.venue)),
                            FALSE,
                            full_url(item.href))>>,
          src |-> << <<"B", k>> >>]

RECURSIVE Gather(_)
\* The for loop over the rows, given what the body makes of each row: the
\* events are gathered in order, and the first row that raises ends the loop.
Gather(each) ==
    IF each = <<>>
    THEN [raised |-> FALSE, events |-> <<>>, src |-> <<>>]
    ELSE IF Head(each).raised
    THEN Head(each)
    ELSE [raised |-> Gather(Tail(each)).raised,
          events |-> Head(each).events \o Gather(Tail(each)).events,
          src |-> Head(each).src \o Gather(Tail(each)).src]

\* for session in session_elements.all()
sessions_loop(event, sessions) ==
    Gather([k \in 1..Len(sessions) |-> session_event(event, sessions[k], k)])

\* for item in alt_items.all()
items_loop(event, items) ==
    Gather([k \in 1..Len(items) |-> item_event(event, items[k], k)])

SelectListed(items) == SelectSeq(items, LAMBDA it : it.listed)

\* lines 543-547: ul.events_list li, then ul.list.events_list li (a subset of
\* the former, so empty when it is tried), then li.
alt_items(items) ==
    IF SelectListed(items) # <<>> THEN SelectListed(items) ELSE items

Outcome(variant, g) ==
    [variant |-> variant, raised |-> g.raised, events |-> g.events, src |-> g.src]

NoRows == [raised |-> FALSE, events |-> <<>>, src |-> <<>>]

\* The expander with the two layouts tried in the other order.
scrape_additional_sessions_available_first(load, event) ==
    IF load.kind \in {"error", "ratelimit"}
    THEN Outcome("failed", NoRows)
    ELSE IF load.available
    THEN Outcome("B", items_loop(event, alt_items(load.items)))
    ELSE IF Len(load.sessions) > 0
    THEN Outcome("A", sessions_loop(event, load.sessions))
    ELSE Outcome("none", NoRows)

scrape_additional_sessions(load, event) ==
    IF load.kind \in {"error", "ratelimit"}
    THEN Outcome("failed", NoRows)
    ELSE IF Len(load.sessions) > 0
    THEN Outcome("A", sessions_loop(event, load.sessions))
    ELSE IF load.available
    THEN Outcome("B", items_loop(event, alt_items(load.items)))
    ELSE Outcome("none", NoRows)

(***************************************************************************)
(* The main run after the crawl: lines 650-676.                            *)
(***************************************************************************)
\* get_standups_from_db(): the rows of the standup table, [] when the read fails.
LoadStandups ==
    /\ pc = "standups"
    /\ \E ok \in BOOLEAN, table \in StandupTables :
          /\ ~ok => faults < MaxFaults
          /\ faults' = IF ok THEN faults ELSE faults + 1
          /\ standups' = IF ok THEN table ELSE <<>>
          /\ conns' = lookup_connection(conns, ok)
    /\ exp_i' = 1
    /\ pc' = IF main_events = <<>> THEN "save" ELSE "expand"
    /\ pg' = NoTurn
    /\ collected' = <<>>
    /\ UNCHANGED <<all_events, saveVars, db, clock, histVars, expLog, exit_code>>
    /\ UNCHANGED <<today, month_i, page_number, events, main_events>>

\* line 654 with the standup test left out.
selected_any_multi(event, stds) == event.has_multi_sessions

\* line 654: event.has_multi_sessions and find_matching_standup(event.title, standups)
selected(event, stds) ==
    event.has_multi_sessions /\ Truthy(find_matching_standup(event.title, stds))

\* lines 655-656 with the event itself kept in front of its sub-events.
extend_keeping_parent(list, extra, event) == Append(list, event) \o extra

\* lines 655-656: all_events.extend(extra), extra being what the expander
\* returned for event.
extend(list, extra, event) == list \o extra

Expanded(event, load, r, cap) ==
    /\ Len(all_events) + Len(r.events) + (Len(main_events) - exp_i) <= cap
    /\ expLog' = Append(expLog, [fetched |-> TRUE, kind |-> load.kind,
                                 sessions |-> IF load.kind = "doc"
                                              THEN Len(load.sessions) ELSE 0,
                                 available |-> load.kind = "doc" /\ load.available,
                                 variant |-> r.variant, raised |-> r.raised,
                                 extra |-> r.events, src |-> r.src,
                                 at |-> Len(all_events)])
    /\ IF r.raised
       THEN /\ pc' = "failed"
            /\ UNCHANGED <<all_events, exp_i>>
       ELSE /\ all_events' = extend(all_events, r.events, event)
            /\ exp_i' = exp_i + 1
            /\ pc' = IF exp_i = Len(main_events) THEN "save" ELSE "expand"

\* One turn of the loop of lines 653-658 in a run that saves at most cap
\* events.
Expand(cap) ==
    /\ pc = "expand"
    /\ exp_i <= Len(main_events)
    /\ IF selected(main_events[exp_i], standups)
       THEN \E load \in Loads :
               Expanded(main_events[exp_i], load,
                        scrape_additional_sessions(load, main_events[exp_i]), cap)
       ELSE /\ all_events' = Append(all_events, main_events[exp_i])
            /\ expLog' = Append(expLog, [fetched |-> FALSE, at |-> Len(all_events)])
            /\ exp_i' = exp_i + 1
            /\ pc' = IF exp_i = Len(main_events) THEN "save" ELSE "expand"
    /\ UNCHANGED <<standups, saveVars, storeVars, histVars, crawlVars, exit_code>>

ExpandStep == Expand(MaxRunEvents)

ExpandLoop == Expand(MaxEvents)

\* lines 670-671: save_events_to_db returned, sys.exit(0).
Finish ==
    /\ pc = "saved"
    /\ pc' = "exited"
    /\ exit_code' = 0
    /\ UNCHANGED <<standups, all_events, saveVars, storeVars, histVars, crawlVars,
                   exp_i, expLog>>

\* lines 673-676: the exception is printed and the script ends.
Fail ==
    /\ pc = "failed"
    /\ pc' = "exited"
    /\ exit_code' = 0
    /\ UNCHANGED <<standups, all_events, saveVars, storeVars, histVars, crawlVars,
                   exp_i, expLog>>

(***************************************************************************)
(* SpecSave: two save passes in succession over one store, each over any   *)
(* event list, with the same standups.                                     *)
(***************************************************************************)
InitSave ==
    /\ pc = "idle"
    /\ standups \in StandupTables
    /\ all_events = <<>>
    /\ SaveLocalsInit
    /\ \E locs \in LocationTables : db = EmptyDb(locs)
    /\ clock = 0
    /\ conns = 0
    /\ faults = 0
    /\ pass = 0
    /\ first = NoFirst
    /\ CrawlIdle

CallSave ==
    /\ pc \in {"idle", "saved"}
    /\ pass < 2
    /\ all_events' \in ListsUpTo(SaveEventPool, MaxEvents)
    /\ pc' = "save"
    /\ pass' = pass + 1
    /\ first' = IF pass = 1
                THEN [done |-> TRUE, events |-> all_events,
                      clean |-> summary = "printed" /\ faults = 0,
                      rows |-> db.ev]
                ELSE first
    /\ UNCHANGED <<standups, saveVars, storeVars, log, crawlVars, mainVars>>

NextSave == CallSave \/ SaveStart \/ SaveEvent \/ SaveCommit

SpecSave == InitSave /\ [][NextSave]_vars

(***************************************************************************)
(* SpecMatch: one save pass over a single event, for every title and every *)
(* standup list within the bounds.                                         *)
(***************************************************************************)
Alphabet == {"a", "A", "b"}

StringsUpTo(n) == UNION {[1..k -> Alphabet] : k \in 0..n}

StandupLists ==
    {<<>>}
    \cup {<<<<1, n>>>> : n \in StringsUpTo(MaxNameLen)}
    \cup {<<<<1, n>>, <<2, m>>>> : n \in StringsUpTo(MaxNameLen),
                                    m \in StringsUpTo(MaxNameLen)}

InitMatch ==
    /\ pc = "save"
    /\ standups \in StandupLists
    /\ \E t \in StringsUpTo(MaxTitleLen) :
          all_events = <<Event(t, "2025-11-01", L_W, FALSE, "u1")>>
    /\ SaveLocalsInit
    /\ db = EmptyDb(<<>>)
    /\ clock = 0
    /\ conns = 0
    /\ faults = 0
    /\ pass = 1
    /\ first = NoFirst
    /\ CrawlIdle

NextMatch == SaveStart \/ SaveEvent \/ SaveCommit

SpecMatch == InitMatch /\ [][NextMatch]_vars


(***************************************************************************)
(* SpecLoc: one save pass over a single event of a known standup, for      *)
(* every location text and every location table within the bounds; the     *)
(* store does not fail in this pass.                                       *)
(***************************************************************************)
LocationLists ==
    {<<>>}
    \cup {<<<<1, n, None>>>> : n \in StringsUpTo(MaxNameLen)}
    \cup {<<<<1, n, None>>, <<2, m, None>>>> : n \in StringsUpTo(MaxNameLen),
                                                m \in StringsUpTo(MaxNameLen)}

InitLoc ==
    /\ pc = "save"
    /\ standups = <<<<1, N_Jo>>>>
    /\ \E l \in StringsUpTo(MaxTitleLen) :
          all_events = <<Event(T_Jo, "2025-11-01", l, FALSE, "u1")>>
    /\ SaveLocalsInit
    /\ \E locs \in LocationLists : db = EmptyDb(locs)
    /\ clock = 0
    /\ conns = 0
    /\ faults = MaxFaults
    /\ pass = 1
    /\ first = NoFirst
    /\ CrawlIdle

NextLoc == SaveStart \/ SaveEvent \/ SaveCommit

SpecLoc == InitLoc /\ [][NextLoc]_vars

(***************************************************************************)
(* Spec: one run of the script, from the first listing request to the end  *)
(* of the process.                                                         *)
(***************************************************************************)
Init ==
    /\ pc = "crawl"
    /\ standups = <<>>
    /\ all_events = <<>>
    /\ SaveLocalsInit
    /\ db = EmptyDb(<<>>)
    /\ clock = 0
    /\ conns = 0
    /\ faults = 0
    /\ pass = 1
    /\ first = NoFirst
    /\ CrawlIdle

Next == PagerStep \/ LoadStandups \/ ExpandStep \/ SaveStart \/ SaveEvent \/ SaveCommit \/ Finish \/ Fail

Spec == Init /\ [][Next]_vars

(***************************************************************************)
(* SpecPager: the crawl of the four months alone.                          *)
(***************************************************************************)
NextPager == PagerLoop

SpecPager == Init /\ [][NextPager]_vars

(***************************************************************************)
(* SpecWindow: the month loop of lines 643-648 started on any day of two   *)
(* years.                                                                  *)
(***************************************************************************)
\* datetime.today().date(): the month and the year of the day of the run.
Todays == {[month |-> m, year |-> y] : m \in 1..12, y \in {2025, 2026}}

InitWindow ==
    /\ pc = "crawl"
    /\ standups = <<>>
    /\ all_events = <<>>
    /\ SaveLocalsInit
    /\ db = EmptyDb(<<>>)
    /\ clock = 0
    /\ conns = 0
    /\ faults = 0
    /\ pass = 1
    /\ first = NoFirst
    /\ today \in Todays
    /\ month_i = 0
    /\ page_number = 1
    /\ events = <<>>
    /\ main_events = <<>>
    /\ pg = NoTurn
    /\ collected = <<>>
    /\ exp_i = 1
    /\ expLog = <<>>
    /\ exit_code = -1

NextWindow == PagerStep

SpecWindow == InitWindow /\ [][NextWindow]_vars

(***************************************************************************)
(* SpecPagerFair: the crawl over a source that ends every month at page    *)
(* EndPage, where each request that goes through brings the `empty` row    *)
(* alone or no results container; no request fails for ever.               *)
(***************************************************************************)
\* The row carries the `empty` marker among its classes.
HasEmptyMarker(row) == \E k \in 1..Len(row.class) : row.class[k] = "empty"

\* What the source answers a request for page pn that goes through.
SourceAnswers(room, pn) ==
    IF pn >= EndPage
    THEN {f \in Fetches(room) :
            \/ f.kind = "timeout"
            \/ f.kind = "doc" /\ Len(f.rows) = 1 /\ HasEmptyMarker(f.rows[1])}
    ELSE {f \in Fetches(room) : f.kind \in {"timeout", "doc"}}

\* A turn of the pager's loop whose page.goto went through with no
\* rate-limit signal.
PagerLoaded ==
    /\ pc = "crawl"
    /\ \E fetch \in SourceAnswers(MaxEvents - Len(main_events) - Len(events), page_number) :
          PagerTurn(fetch, pager_iteration(fetch, events, page_number))
    /\ UNCHANGED <<today, standups, all_events, saveVars, storeVars, histVars, mainVars>>

\* A turn of the pager's loop whose page.goto raised or brought a rate-limit
\* signal.
PagerRefused ==
    /\ pc = "crawl"
    /\ \E fetch \in {[kind |-> "error"], [kind |-> "ratelimit"]} :
          PagerTurn(fetch, pager_iteration(fetch, events, page_number))
    /\ UNCHANGED <<today, standups, all_events, saveVars, storeVars, histVars, mainVars>>

NextPagerFair == PagerLoaded \/ PagerRefused

SpecPagerFair == Init /\ [][NextPagerFair]_vars /\ WF_vars(PagerLoaded)

(***************************************************************************)
(* SpecExpand: the loop of lines 653-658 alone, over any listing the crawl *)
(* can return and any standup table.                                       *)
(***************************************************************************)
ListingEvents == {row_event(row) : row \in {r \in ListingRows : r.complete}}

InitExpand ==
    /\ pc = "expand"
    /\ standups \in StandupTables
    /\ all_events = <<>>
    /\ SaveLocalsInit
    /\ db = EmptyDb(<<>>)
    /\ clock = 0
    /\ conns = 0
    /\ faults = 0
    /\ pass = 1
    /\ first = NoFirst
    /\ today = [month |-> 11, year |-> 2025]
    /\ month_i = Months
    /\ page_number = 1
    /\ events = <<>>
    /\ main_events \in ListsUpTo(ListingEvents, MaxEvents) \ {<<>>}
    /\ pg = NoTurn
    /\ collected = <<>>
    /\ exp_i = 1
    /\ expLog = <<>>
    /\ exit_code = -1

NextExpand == ExpandLoop

SpecExpand == InitExpand /\ [][NextExpand]_vars

(***************************************************************************)
(* Properties of the persistence pass.                                     *)
(***************************************************************************)
SameLocation(i, j) == log[i].event.location = log[j].event.location

\* The standup name, lower-cased, occurs in the lower-cased title at some
\* offset (stated character by character).
ContainsCI(name, title) ==
    \E off \in 0..(Len(title) - Len(name)) :
        \A p \in 1..Len(name) : LowerChar(name[p]) = LowerChar(title[off + p])

\* C1: the store never holds two event rows with the same
\* (standup_id, date); an insert the store executes on a key that is already
\* there reports rowcount 0, raises nothing and leaves the rows as they were.
C1_UniqueStandupDate ==
    /\ \A r1, r2 \in Visible(db) : EventKey(r1) = EventKey(r2) => r1 = r2
    /\ \A i \in 1..Len(log) :
          (log[i].attempted /\ log[i].executed /\ log[i].conflict)
              => (log[i].rowcount = 0 /\ ~log[i].raised /\ ~log[i].grew)

C1_Witness ==
    /\ pass = 2
    /\ db.ev # {}
    /\ \E i \in 1..Len(log) :
          log[i].attempted /\ log[i].executed /\ log[i].conflict
          /\ log[i].rowcount = 0

\* C6 (as claimed): when the same events and standups are saved twice in
\* succession, and neither pass met a store fault, the second pass reports a
\* saved count of zero and leaves the event rows as the first pass left them.
C6_SecondPassSavesNothing ==
    (/\ pc = "saved"
     /\ pass = 2
     /\ first.done
     /\ first.clean
     /\ first.events = all_events
     /\ faults = 0
     /\ summary = "printed")
        => (saved_count = 0 /\ db.ev = first.rows)

\* C7 (as claimed): a location string that matched nothing when first met
\* gets its row at that first encounter, and every later event of the pass
\* with the same string resolves to that row with no further insert.
C7_ExactlyOneInsertPerLocation ==
    \A i \in 1..Len(log) :
        (/\ log[i].lockind \in {"create", "fail"}
         /\ \A h \in 1..(i - 1) :
               SameLocation(h, i) => log[h].lockind = "none")
            => /\ log[i].lockind = "create"
               /\ \A j \in (i + 1)..Len(log) :
                     (SameLocation(i, j) /\ log[j].lockind # "none")
                        => (log[j].lockind = "match" /\ log[j].loc = log[i].loc)

\* C7 (amended): once an insert of a location row for L has succeeded in a
\* pass, every later standup-matched event of the pass with the same L
\* resolves to the id of that row and no further insert is attempted for L;
\* so at most one row is inserted for L.
C7_CreatedLocationIsReused ==
    \A i \in 1..Len(log) : \A j \in (i + 1)..Len(log) :
        (log[i].lockind = "create" /\ SameLocation(i, j)
         /\ log[j].lockind # "none")
            => (log[j].lockind = "match" /\ log[j].loc = log[i].loc)

C7_Witness ==
    \E i \in 1..Len(log) : \E j \in (i + 1)..Len(log) :
        /\ log[i].lockind = "create"
        /\ SameLocation(i, j)
        /\ log[j].lockind = "match"
        /\ log[j].attempted

\* C8: find_matching_standup returns the first standup, in list order, whose
\* lower-cased name occurs in the lower-cased title, and None exactly when
\* there is none; an event row is stored only under a standup whose name
\* its title contains, and an event that matched nothing is never inserted.
C8_FirstContainedStandup ==
    /\ \A i \in 1..Len(log) :
          LET r == log[i].standup
              t == log[i].event.title
          IN /\ (r = None) <=>
                    ~\E k \in 1..Len(standups) : ContainsCI(standups[k][2], t)
             /\ r # None =>
                    \E k \in 1..Len(standups) :
                        /\ standups[k] = r
                        /\ ContainsCI(standups[k][2], t)
                        /\ \A h \in 1..(k - 1) : ~ContainsCI(standups[h][2], t)
             /\ r = None => ~log[i].attempted
    /\ \A row \in Visible(db) :
          \E k \in 1..Len(standups) :
              /\ standups[k][1] = row.standup_id
              /\ ContainsCI(standups[k][2], row.name)

C8_Witness ==
    /\ pc = "saved"
    /\ Len(standups) = 2
    /\ Len(log) = 1
    /\ log[1].standup = standups[2]
    /\ standups[2][2] # Lower(standups[2][2])
    /\ Len(log[1].event.title) > Len(standups[2][2])
    /\ ~IsIn(standups[2][2], log[1].event.title)
    /\ \E row \in db.ev : row.standup_id = 2

(***************************************************************************)
(* Properties of the listing pager, under SpecPager.                       *)
(***************************************************************************)
\* The latest turn of the pager's loop belongs to the call that is running.
SameCall == pc = "crawl" /\ pg.kind # "none" /\ pg.i = month_i

\* C3: when the wait for the results container times out on page n, the
\* call ends there: no event is added for page n, the events it returns are
\* those of pages 1..n-1 (none when n = 1), the next request is for page 1 of
\* the next month, and no request of a call ever follows a timeout of that
\* call.
C3_TimeoutEndsMonth ==
    /\ pg.kind = "timeout" =>
          /\ month_i = pg.i + 1
          /\ page_number = 1
          /\ events = <<>>
          /\ main_events = pg.main0 \o pg.events0
          /\ Len(collected) = pg.page - 1
          /\ Flatten(collected) = pg.events0
          /\ pg.page = 1 => main_events = pg.main0
    /\ pg.kind # "none" => pg.prevkind # "timeout"

C3_Witness ==
    /\ pg.kind = "timeout"
    /\ pg.page = 2
    /\ pg.events0 # <<>>
    /\ main_events = pg.events0

\* C4: when the fetched page holds exactly one row and that row has the class
\* "empty" among its classes, no event is added for the page and the call
\* requests no further page.
C4_EmptyMarkerEndsMonth ==
    (pg.kind = "doc" /\ pg.rows = 1 /\ \E k \in 1..Len(pg.class) : pg.class[k] = "empty")
        => /\ main_events \o events = pg.main0 \o pg.events0
           /\ ~SameCall

\* C5: after a failed load or a rate-limit signal on page n the call goes on
\* with the same page and the same events, and the request that follows is
\* for page n again; page_number grows only by one, and only after the rows
\* of a fetched page were read.
C5_FailedLoadRetriesSamePage ==
    /\ pg.kind \in {"error", "ratelimit"} =>
          /\ SameCall
          /\ page_number = pg.page
          /\ events = pg.events0
          /\ main_events = pg.main0
    /\ (pg.kind # "none" /\ pg.prevkind \in {"error", "ratelimit"}) =>
          pg.page = pg.prevpage
    /\ SameCall =>
          \/ page_number = pg.page
          \/ /\ page_number = pg.page + 1
             /\ pg.kind = "doc"
             /\ ~(pg.rows = 1 /\ pg.class = <<"empty">>)

C5_Witness ==
    /\ pg.kind = "ratelimit"
    /\ pg.prevkind = "error"
    /\ pg.page = 2
    /\ pg.prevpage = 2
    /\ events # <<>>

(***************************************************************************)
(* Properties of the expansion loop, under SpecExpand.                     *)
(***************************************************************************)
\* The sub-event is what the lines of Variant B make of some item.
FromItem(parent, sub) ==
    \E it \in ItemRows : it.complete /\ item_event(parent, it, 0).events = <<sub>>

\* C9: the sub-events of one detail page come from one layout, Variant A
\* when its rows are there, else Variant B when its container is there, else
\* there are none; with only Variant B's container no row of Variant A is
\* read and every sub-event comes from an item of Variant B.
C9_OneLayout ==
    \A i \in 1..Len(expLog) :
        (expLog[i].fetched /\ expLog[i].kind = "doc") =>
            /\ Len(expLog[i].src) = Len(expLog[i].extra)
            /\ \A k, m \in 1..Len(expLog[i].src) :
                  expLog[i].src[k][1] = expLog[i].src[m][1]
            /\ expLog[i].sessions > 0 =>
                  \A k \in 1..Len(expLog[i].src) : expLog[i].src[k][1] = "A"
            /\ (expLog[i].sessions = 0 /\ expLog[i].available) =>
                  \A k \in 1..Len(expLog[i].src) :
                      /\ expLog[i].src[k][1] = "B"
                      /\ FromItem(main_events[i], expLog[i].extra[k])
            /\ (expLog[i].sessions = 0 /\ ~expLog[i].available) =>
                  expLog[i].extra = <<>>

C9_Witness ==
    \E i \in 1..Len(expLog) :
        /\ expLog[i].fetched
        /\ expLog[i].kind = "doc"
        /\ expLog[i].sessions = 0
        /\ expLog[i].available
        /\ Len(expLog[i].extra) = 2
        /\ Len(all_events) >= 2

\* The event has several sessions and its title contains the name of one of
\* the standups.
WantsExpansion(event) ==
    /\ event.has_multi_sessions
    /\ \E k \in 1..Len(standups) : ContainsCI(standups[k][2], event.title)

\* C10: a detail page is fetched for an event only when the event has
\* several sessions and its title contains a standup name; every other event
\* is fetched no page and is itself put in all_events.
C10_FetchOnlySelected ==
    \A i \in 1..Len(expLog) :
        /\ expLog[i].fetched => WantsExpansion(main_events[i])
        /\ ~WantsExpansion(main_events[i]) =>
              /\ ~expLog[i].fetched
              /\ Len(all_events) > expLog[i].at
              /\ all_events[expLog[i].at + 1] = main_events[i]

C10_Witness ==
    \E i, j \in 1..Len(expLog) :
        /\ expLog[i].fetched
        /\ expLog[i].kind = "doc"
        /\ ~expLog[j].fetched
        /\ main_events[j].has_multi_sessions
        /\ standups # <<>>

(***************************************************************************)
(* Properties of the whole run, under Spec.                                *)
(***************************************************************************)
HasPrefix(str, pre) == Len(str) >= Len(pre) /\ SubSeq(str, 1, Len(pre)) = pre

\* The detail page of the i-th listed event failed to load or showed a
\* rate-limit signal.
DetailFailed(i) ==
    i <= Len(expLog) /\ expLog[i].fetched /\ expLog[i].kind \in {"error", "ratelimit"}

\* The store failed while some location was created.
LocationFailed == \E j \in 1..Len(log) : log[j].attempted = FALSE /\ log[j].lockind = "fail"

\* C2: when the run has finished after a failed detail-page load of a listed
\* event whose title contains a standup name, or after a store error in the
\* creation of a location, the store holds that event or one of its
\* sub-events.
C2_NoDataLoss ==
    (pc = "exited" /\ summary = "printed") =>
        \A i \in 1..Len(main_events) :
            ((\E k \in 1..Len(standups) : ContainsCI(standups[k][2], main_events[i].title))
              /\ (DetailFailed(i) \/ LocationFailed))
                => \E row \in db.ev : HasPrefix(row.name, main_events[i].title)

\* C11: an event for which a detail page was fetched is not in all_events,
\* its sub-events are (each with has_multi_sessions = FALSE), and no insert
\* is attempted for an event with has_multi_sessions = TRUE.
C11_ExpansionReplacesParent ==
    /\ \A i \in 1..Len(expLog) :
          expLog[i].fetched =>
              /\ \A j \in 1..Len(all_events) : all_events[j] # main_events[i]
              /\ \A k \in 1..Len(expLog[i].extra) :
                    ~expLog[i].extra[k].has_multi_sessions
              /\ ~expLog[i].raised => \A k \in 1..Len(expLog[i].extra) :
                    /\ Len(all_events) >= expLog[i].at + k
                    /\ all_events[expLog[i].at + k] = expLog[i].extra[k]
    /\ \A j \in 1..Len(log) :
          log[j].attempted => ~log[j].event.has_multi_sessions
    /\ pc \in {"save", "save_loop", "saved"} =>
          \A j \in 1..Len(all_events) :
              all_events[j].has_multi_sessions =>
                  ~Truthy(find_matching_standup(all_events[j].title, standups))

C11_Witness ==
    /\ pc = "exited"
    /\ Len(expLog) = 1
    /\ expLog[1].fetched
    /\ Len(expLog[1].extra) = 1
    /\ Len(log) = 1
    /\ log[1].attempted
    /\ log[1].rowcount = 1
    /\ \E row \in db.ev : row.name = expLog[1].extra[1].title

\* C12: when the first save pass over an empty event table has ended without
\* its tally (the final commit raised, or the pass never came to it), no
\* event row is in the store.
C12_FailedBatchLeavesNoRow ==
    (pc = "saved" /\ pass = 1 /\ first = NoFirst /\ summary = "none") => db.ev = {}

\* An exception left scrape_events_for_month or scrape_additional_sessions
\* and reached the handler of line 673.
Escaped ==
    \/ pg.kind # "none" /\ pg.status = "raise"
    \/ \E i \in 1..Len(expLog) : expLog[i].fetched /\ expLog[i].raised

Unparseable(date_str) ==
    date_str \notin {"2025-11-01T00:00:00Z", "2025-11-02T21:30:00+00:00", "2025-11-01"}

\* C14: an event with an unparseable date that matched a standup and got a
\* location is not skipped: its insert is attempted with the instant the
\* clock shows, and nothing is raised unless the store fails the statement.
C14_DateFallback ==
    \A j \in 1..Len(log) :
        /\ ~log[j].attempted => (log[j].standup = None \/ log[j].lockind = "fail")
        /\ log[j].attempted =>
              /\ log[j].fallback <=> Unparseable(log[j].event.date)
              /\ (log[j].fallback /\ log[j].executed) => ~log[j].raised
              /\ log[j].fallback => log[j].date \in 0..clock
              /\ (/\ log[j].fallback
                  /\ \A k \in (j + 1)..Len(log) :
                        ~(log[k].attempted /\ log[k].fallback))
                    => log[j].date = clock

C14_Witness ==
    \E j \in 1..Len(log) :
        /\ log[j].attempted
        /\ Unparseable(log[j].event.date)
        /\ log[j].executed
        /\ log[j].rowcount = 1
        /\ log[j].date = 1
        /\ clock = 1
        /\ pc = "saved"
        /\ \E row \in db.ev : row.date = 1 /\ row.name = log[j].event.title

(***************************************************************************)
(* Properties of find_matching_location, under SpecLoc.                    *)
(***************************************************************************)
\* One of the two strings, case ignored, occurs in the other.
EitherContains(name, text) == ContainsCI(name, text) \/ ContainsCI(text, name)

\* The list find_matching_location was given for the first event of the
\* pass: a created location is appended only afterwards.
ListSearched ==
    IF log[1].lockind = "create"
    THEN SubSeq(locations, 1, Len(locations) - 1)
    ELSE locations

LocationFailures == {j \in 1..Len(log) : log[j].lockind = "fail"}

\* The row the j-th event of the pass was saved as is in the event table.
StoredRowOf(j) ==
    \E row \in db.ev :
        /\ row.name = log[j].event.title
        /\ row.date = log[j].date
        /\ row.standup_id = log[j].standup[1]

\* C17: when the only store error of a completed first pass was raised in
\* the creation of a location, the event it was raised for is counted once
\* as skipped with its location string recorded, and the row of every event
\* saved before it is in the event table.
C17_LocationFailureIsLocal ==
    (/\ pc = "saved"
     /\ summary = "printed"
     /\ pass = 1
     /\ first = NoFirst
     /\ faults = 1
     /\ Cardinality(LocationFailures) = 1)
        => \A f \in LocationFailures :
              /\ skipped_location_count = 1
              /\ unmatched_locations = {log[f].event.location}
              /\ \A j \in 1..(f - 1) :
                    (log[j].attempted /\ ~log[j].raised /\ log[j].rowcount = 1)
                        => StoredRowOf(j)

\* C18: when the only store error of a completed first pass was raised by
\* the insert of one event, every later, different event that matched a
\* standup has its insert attempted, and when it is no duplicate it is counted as saved and
\* its row is in the event table.
C18_InsertErrorIsLocal ==
    (/\ pc = "saved"
     /\ summary = "printed"
     /\ pass = 1
     /\ first = NoFirst
     /\ faults = 1)
        => \A i \in 1..Len(log) : \A j \in (i + 1)..Len(log) :
              (/\ log[i].attempted
               /\ log[i].raised
               /\ log[j].event # log[i].event
               /\ log[j].standup # None)
                  => /\ log[j].attempted
                     /\ ~log[j].conflict =>
                           /\ ~log[j].raised
                           /\ log[j].rowcount = 1
                           /\ StoredRowOf(j)

(***************************************************************************)
(* Further properties of the whole run, under Spec.                        *)
(***************************************************************************)
\* C16: after page.goto raised, the same target is tried again: the pager
\* stays on the page it asked for and asks for it again, and the selection
\* loop stays on the event whose detail page did not load.
C16_NavigationFailureRetried ==
    /\ pg.kind = "error" => (SameCall /\ page_number = pg.page)
    /\ (pg.kind # "none" /\ pg.prevkind = "error") => pg.page = pg.prevpage
    /\ \A i \in 1..Len(expLog) :
          (expLog[i].fetched /\ expLog[i].kind = "error") =>
              (pc = "expand" /\ exp_i = i)

\* C19: no exception leaves the pager or the expander over a row that
\* lacks a field: the run is never in the handler of line 673.
C19_MissingStructureNotRaised ==
    /\ pc # "failed"
    /\ ~Escaped

(***************************************************************************)
(* Further properties of the expansion loop, under SpecExpand.             *)
(***************************************************************************)
\* C20: every sub-event the expander returns has a non-empty date string.
C20_SubEventsHaveDate ==
    \A i \in 1..Len(expLog) :
        expLog[i].fetched =>
            \A k \in 1..Len(expLog[i].extra) : expLog[i].extra[k].date # ""

(***************************************************************************)
(* Properties of the pager over a source that ends, under SpecPagerFair.   *)
(***************************************************************************)
\* The latest turn ended the call by the wait timeout or by the lone row
\* with the `empty` marker.
EndedByTimeoutOrMarker ==
    \/ pg.kind = "timeout"
    \/ /\ pg.kind = "doc"
       /\ pg.rows = 1
       /\ \E k \in 1..Len(pg.class) : pg.class[k] = "empty"

\* C21: over a source that ends at page EndPage and refuses no request for
\* ever, every call of the pager returns, no page beyond EndPage is asked
\* for, and a call returns only by the wait timeout or the `empty` row.
C21_PaginationTerminates ==
    /\ \A k \in 0..(Months - 1) : (month_i = k) ~> (month_i = k + 1)
    /\ [](pg.kind # "none" => pg.page <= EndPage)
    /\ [][month_i' # month_i => EndedByTimeoutOrMarker']_vars

(***************************************************************************)
(* Properties of the database connections, under Spec.                     *)
(***************************************************************************)
\* The run is in one of the loops that fetch listing or detail pages.
Fetching == pc \in {"crawl", "expand"}

\* C22: every step of the loops that fetch pages begins and ends with no
\* database connection open; at most one connection is open at a time, and
\* only between the entry of the save pass and its end.
C22_NoConnectionWhileFetching ==
    /\ [](conns \in {0, 1})
    /\ [](conns = 1 => pc = "save_loop")
    /\ [][Fetching => conns = 0 /\ conns' = 0]_vars

\* The save pass holds its connection after a detail page was fetched and
\* the standup lookup was made.
C22_Witness ==
    /\ pc = "save_loop"
    /\ conns = 1
    /\ standups # <<>>
    /\ \E i \in 1..Len(expLog) : expLog[i].fetched

(***************************************************************************)
(* Properties of the in-memory location list, under SpecSave.              *)
(***************************************************************************)
\* The store d holds a committed location row with the id and name of entry.
CommittedIn(d, entry) ==
    \E k \in 1..Len(d.locs) : d.locs[k][1] = entry[1] /\ d.locs[k][2] = entry[2]

IsPrefix(a, b) == Len(a) <= Len(b) /\ SubSeq(b, 1, Len(a)) = a

\* C23: during a save pass the location list only grows at its end, by one
\* entry at a time; the entry added is that of a row the same step created
\* and committed; and every entry of the list is a committed location row
\* in every state, rollbacks included.
C23_LocationListConsistent ==
    /\ [](\A i \in 1..Len(locations) : CommittedIn(db, locations[i]))
    /\ [][pc = "save_loop" =>
            /\ IsPrefix(locations, locations')
            /\ Len(locations') <= Len(locations) + 1]_vars
    /\ [][pc = "save_loop" /\ Len(locations') > Len(locations) =>
            /\ CommittedIn(db', locations'[Len(locations')])
            /\ ~CommittedIn(db, locations'[Len(locations')])]_vars

\* A pass created a location, and its last commit failed and was rolled back.
C23_Witness ==
    /\ pc = "saved"
    /\ summary = "none"
    /\ faults > 0
    /\ locations # <<>>
    /\ \E i \in 1..Len(log) : log[i].lockind = "create" /\ log[i].loc = locations[Len(locations)]

(***************************************************************************)
(* Properties of the scan window, under SpecWindow.                        *)
(***************************************************************************)
\* Months since year 0 of the calendar month (month, year).
MonthIndex(month, year) == year * 12 + (month - 1)

C25_SubEventsKeepStandup ==
    \A i \in 1..Len(expLog) :
        expLog[i].fetched =>
            \A k \in 1..Len(expLog[i].extra) :
                /\ IsIn(main_events[i].title, expLog[i].extra[k].title)
                /\ Truthy(find_matching_standup(expLog[i].extra[k].title, standups))
                /\ (~expLog[i].raised /\ Len(log) >= expLog[i].at + k) =>
                      /\ log[expLog[i].at + k].event = expLog[i].extra[k]
                      /\ log[expLog[i].at + k].lockind # "none"
                      /\ Truthy(log[expLog[i].at + k].standup)

\* The save pass has handled a sub-event, whose title is longer than its
\* parent's.
C25_Witness ==
    /\ pc \in {"save_loop", "saved"}
    /\ Len(expLog) = 1
    /\ expLog[1].fetched
    /\ ~expLog[1].raised
    /\ Len(expLog[1].extra) = 1
    /\ Len(expLog[1].extra[1].title) > Len(main_events[1].title)
    /\ Len(log) = 1
    /\ log[1].event = expLog[1].extra[1]
    /\ Truthy(log[1].standup)

=============================================================================
